---- MODULE Spec2Model ----
(***************************************************************************)
(* Thread & image retriever (05_thread_image_retriever.py) as a state      *)
(* machine: the remote tweet source, the SQLite tables, the files under    *)
(* output_data/threads and the position of main() in its per-bookmark loop.*)
(* A tweet record of the API is identified by its id: parent(id) is its    *)
(* replying_to_status, photos(id) its media.photos URLs.                   *)
(* Second part: the uploader (upload_to_retriever.py), with the indexing    *)
(* service, the tracking file and the position of its main().              *)
(***************************************************************************)
EXTENDS Naturals, Integers, Sequences, FiniteSets, TLC

\* ------------------------------------------------------------------ bounds
\* Tweet ids of the orchestrator's worlds, runs of main(), and injected
\* failures (failed fetches and downloads, exceptions, interruptions) per
\* behaviour; tweet ids of the worlds the walker alone is run on.
MaxId == 2
MaxRuns == 2
MaxFaults == 1
MaxWalkId == 4
\* The uploader's worlds: a corpus of at most MaxSmallCorpus bookmarks, or one
\* that reaches MaxPastCheckpoint bookmarks past the first checkpoint.
MaxSmallCorpus == 2
MaxPastCheckpoint == 1
\* Lengths of the tweet ids and of the file names that destination paths are
\* built from, as strings.
MaxIdLen == 2
MaxNameLen == 2

Ids == 1..MaxId
WalkIds == 1..MaxWalkId
None == 0

\* ------------------------------------------------------------- photo URLs
\* A URL is its final path segment (stem, extension) and its query string.
\* "" as ext: the segment has no "." in it.
U1 == [stem |-> "x", ext |-> "jpg", query |-> "orig"]
U2 == [stem |-> "x", ext |-> "", query |-> ""]
U3 == [stem |-> "y", ext |-> "png", query |-> ""]
PhotoLists == {<<U1>>, <<U1, U2>>, <<U3, U1>>}

VARIABLES
  parent,            \* remote: id -> replying_to_status (None: no parent)
  photos,            \* remote: id -> media.photos URLs
  bookmarks,         \* table bookmarks (read-only here): set of tweet ids
  tweets,            \* table tweets: id -> row, for the stored ids
  images,            \* table images: set of rows
  retrieval_log,     \* table retrieval_log: set of tweet ids
  files,             \* image files on disk: dest path -> "full" | "partial"
  manifests,         \* thread.json per conversation directory (see Written)
  thread_index,      \* thread_index.json (see Absent, Written)
  pc,                \* position of main() of the script that runs
  run,               \* number of the current run of main()
  pending,           \* main: bookmarks (list computed at the start of the run)
  i,                 \* main: loop index
  total_images,      \* main: total_images
  imgs,              \* main: imgs, the value the last process_bookmark returned
  chain,             \* walk_thread_up / process_bookmark: chain
  visited,           \* walk_thread_up: visited
  current_id,        \* walk_thread_up: current_id
  conversation_id,   \* process_bookmark: conversation_id
  tix,               \* process_bookmark: position in `for tweet in chain`
  pix,               \* process_bookmark: position in `for img_url in ...`
  images_downloaded, \* process_bookmark: images_downloaded
  fetched,           \* history: ids requested from the API in the current walk
  walk_failed,       \* history: a fetch of the current walk failed
  hist,              \* history of the runs (see HistInit)
  service,           \* indexing service: bookmark id -> documents it holds
  tracking_file,     \* .uploaded_ids.json (see Absent, Written)
  full,              \* uploader main: args.full
  uploaded_ids,      \* uploader main: uploaded_ids
  to_upload,         \* uploader main: to_upload (tweet ids)
  success,           \* uploader main: success
  errors,            \* uploader main: errors
  uhist              \* history of the uploader's runs (see UploadHistInit)

vars == <<parent, photos, bookmarks, tweets, images, retrieval_log, files,
          manifests, thread_index, pc, run, pending, i, total_images, imgs, chain,
          visited, current_id, conversation_id, tix, pix, images_downloaded,
          fetched, walk_failed, hist, service, tracking_file, full,
          uploaded_ids, to_upload, success, errors, uhist>>

\* What the uploader owns, and what the retriever owns.
uploader == <<service, tracking_file, full, uploaded_ids, to_upload, success,
              errors, uhist>>
retriever == <<parent, photos, tweets, images, retrieval_log, files, manifests,
               thread_index, pending, total_images, imgs, chain, visited,
               current_id, conversation_id, tix, pix, images_downloaded,
               fetched, walk_failed, hist>>

remote == <<parent, photos, bookmarks>>
store == <<tweets, images, retrieval_log, files, manifests, thread_index>>
locals == <<chain, visited, current_id, conversation_id, tix, pix,
            images_downloaded, fetched, walk_failed>>

\* ----------------------------------------------------------------- helpers
Range(s) == {s[k] : k \in DOMAIN s}

RECURSIVE Reverse(_)
\* list.reverse(), line 218
Reverse(s) == IF s = << >> THEN << >> ELSE Reverse(Tail(s)) \o <<Head(s)>>

Min(S) == CHOOSE x \in S : \A y \in S : x <= y

RECURSIVE SortedSeq(_)
\* The ids of S in ascending order (ORDER BY timestamp: a tweet's timestamp
\* grows with its id).
SortedSeq(S) == IF S = {} THEN << >> ELSE <<Min(S)>> \o SortedSeq(S \ {Min(S)})

\* ------------------------------------------------------- database helpers
\* (mutant) the selection without its NOT IN (SELECT ... FROM retrieval_log)
get_all_bookmarks == SortedSeq({b \in bookmarks : b \in DOMAIN tweets})

\* get_unprocessed_bookmarks: bookmarks JOIN tweets, not in retrieval_log,
\* ORDER BY timestamp.
get_unprocessed_bookmarks ==
  SortedSeq({b \in bookmarks : b \in DOMAIN tweets /\ b \notin retrieval_log})

\* (mutant) the upsert lost
save_tweet_from_api_lost(t, conv) == tweets

\* save_tweet_from_api: INSERT OR REPLACE INTO tweets, keyed by tweet_id.
save_tweet_from_api(t, conv) ==
  [x \in (DOMAIN tweets) \cup {t} |->
     IF x = t THEN [conversation_id |-> conv, parent_tweet_id |-> parent[t]]
     ELSE tweets[x]]

\* (mutant) the insertion lost
mark_retrieved_lost(tweet_id) == retrieval_log

\* mark_retrieved: INSERT OR IGNORE INTO retrieval_log.
mark_retrieved(tweet_id) == retrieval_log \cup {tweet_id}

\* save_image_record: INSERT OR REPLACE INTO images, PRIMARY KEY (tweet_id, url).
save_image_record(tweet_id, url, local_path) ==
  {r \in images : ~(r.tweet_id = tweet_id /\ r.url = url)}
    \cup {[tweet_id |-> tweet_id, url |-> url, local_path |-> local_path]}

\* --------------------------------------------------------- media helpers
\* get_image_urls: the photo URLs of a tweet's media.
get_image_urls(t) == photos[t]

\* image_filename_from_url: the final path segment of the URL's path (the
\* query is no part of the path), with ".jpg" added when it has no ".".
image_filename_from_url(url) ==
  <<url.stem, IF url.ext = "" THEN "jpg" ELSE url.ext>>

\* dest = thread_dir / f"{tweet['id']}_{fname}", thread_dir = THREADS_DIR / conversation_id
Dest(conv, t, url) == <<conv, t, image_filename_from_url(url)>>

\* dest.exists()
Exists(dest) == dest \in DOMAIN files

\* The file system after open(dest, "wb") and the writes that followed.
WriteFile(dest, content) ==
  [d \in (DOMAIN files) \cup {dest} |-> IF d = dest THEN content ELSE files[d]]

\* The content of a JSON file: no file, the whole document, or what an
\* abandoned json.dump left of it after open(..., "w").
Absent == [state |-> "absent"]
Truncated == [state |-> "partial"]
Written(doc) == [state |-> "written", doc |-> doc]

\* The manifest dict of process_bookmark, lines 299-313.
Manifest(conv, ch) ==
  [conversation_id |-> conv,
   tweet_count |-> Len(ch),
   tweets |-> [k \in 1..Len(ch) |-> [id |-> ch[k], images |-> get_image_urls(ch[k])]]]

\* (mutant) an existing thread.json is kept
WriteManifestOnce(conv, content) ==
  [c \in (DOMAIN manifests) \cup {conv} |->
     IF c = conv /\ conv \notin DOMAIN manifests THEN content ELSE manifests[c]]

\* The file system after open(thread_dir / "thread.json", "w") and json.dump.
WriteManifest(conv, content) ==
  [c \in (DOMAIN manifests) \cup {conv} |-> IF c = conv THEN content ELSE manifests[c]]

\* export_thread_index: the stored tweets with a conversation_id, grouped by
\* it, each group ordered by timestamp.
export_thread_index ==
  LET convs == {tweets[t].conversation_id : t \in
                  {x \in DOMAIN tweets : tweets[x].conversation_id /= None}}
  IN [c \in convs |->
        SortedSeq({t \in DOMAIN tweets : tweets[t].conversation_id = c})]

\* ------------------------------------------------------------------- Init
\* History of the runs, kept beside the program's state:
\*   started        bookmarks for which this run called process_bookmark
\*   raised         bookmarks whose process_bookmark raised an Exception in this run
\*   interrupted    a KeyboardInterrupt was delivered in this run
\*   downloaded     download_image sent a request in this run
\*   log_at_start   retrieval_log as this run found it
\*   prev_completed the previous run left its loop by exhausting it
\*   redownloaded   download_image sent a request for a destination that existed
\*   faults         failures injected so far, over all runs
HistInit == [started |-> {}, raised |-> {}, interrupted |-> FALSE,
             downloaded |-> FALSE, log_at_start |-> {}, prev_completed |-> FALSE,
             redownloaded |-> FALSE, faults |-> 0]

CanFail == hist.faults < MaxFaults

\* History of the uploader's runs, kept beside its state:
\*   faults    failures injected so far (failed first POSTs, cuts), all runs
\*   posts     POSTs sent for the bookmark of the current iteration
\*   first     what the first POST of the current iteration met ("" before it)
\*   last      what the last POST of the current iteration met
\*   waited    the backoff of line 131 was slept in the current iteration
\*   loaded    uploaded_ids as lines 104-109 set it in this run
\*   any_full  some run so far was started with --full
UploadHistInit == [faults |-> 0, posts |-> 0, first |-> "", last |-> "",
                   waited |-> FALSE, loaded |-> {}, any_full |-> FALSE]

\* The uploader has not been started: no tracking file, an empty service.
UploaderIdle ==
  /\ service = [b \in bookmarks |-> 0]
  /\ tracking_file = Absent
  /\ full = FALSE /\ uploaded_ids = {} /\ to_upload = << >>
  /\ success = 0 /\ errors = 0
  /\ uhist = UploadHistInit

LocalsInit ==
  /\ chain = << >> /\ visited = {} /\ current_id = None
  /\ conversation_id = None /\ tix = 0 /\ pix = 0 /\ images_downloaded = 0
  /\ fetched = << >> /\ walk_failed = FALSE

\* The database 04_twitter_bookmarks_advanced.py left: every bookmark has its
\* tweets row, without thread columns; ensure_schema has added empty tables.
\* Tweet ids grow with time, so a reply answers a tweet with a smaller id
\* (reply graphs of any shape, cycles included, are walked under WalkSpec);
\* every tweet of a world carries the same photo list.
Init ==
  /\ parent \in {f \in [Ids -> Ids \cup {None}] : \A t \in Ids : f[t] < t}
  /\ photos \in {[t \in Ids |-> l] : l \in PhotoLists}
  /\ bookmarks \in (SUBSET Ids) \ {{}}
  /\ tweets = [b \in bookmarks |-> [conversation_id |-> None, parent_tweet_id |-> None]]
  /\ images = {}
  /\ retrieval_log = {}
  /\ files = << >>
  /\ manifests = << >>
  /\ thread_index = Absent
  /\ pc = "start" /\ run = 1
  /\ pending = << >> /\ i = 0 /\ total_images = 0 /\ imgs = 0
  /\ LocalsInit
  /\ hist = HistInit
  /\ UploaderIdle

\* ------------------------------------------------------------------- main
\* The frames of process_bookmark and walk_thread_up are gone (return, or an
\* exception passing through them).
Unwind ==
  /\ chain' = << >> /\ visited' = {} /\ current_id' = None
  /\ conversation_id' = None /\ tix' = 0 /\ pix' = 0 /\ images_downloaded' = 0

\* The bookmark being processed (bm of main, bookmark of process_bookmark).
bm == pending[i]

\* Lines 356-366: the list of pending bookmarks is read once per run.
main_start ==
  /\ pc = "start"
  /\ pending' = get_unprocessed_bookmarks
  /\ i' = 1 /\ total_images' = 0
  /\ pc' = IF get_unprocessed_bookmarks = << >> THEN "export" ELSE "loop"
  /\ UNCHANGED <<uploader, remote, store, run, imgs, locals, hist>>

\* Lines 369-372: the loop takes its next bookmark and calls process_bookmark,
\* which enters walk_thread_up (lines 196-199); or the loop is exhausted.
main_loop ==
  /\ pc = "loop"
  /\ IF i <= Len(pending)
     THEN /\ pc' = "walk"
          /\ chain' = << >> /\ visited' = {} /\ current_id' = bm
          /\ fetched' = << >> /\ walk_failed' = FALSE
          /\ hist' = [hist EXCEPT !.started = @ \cup {bm}]
          /\ UNCHANGED <<conversation_id, tix, pix, images_downloaded>>
     ELSE /\ pc' = "export"
          /\ UNCHANGED <<locals, hist>>
  /\ UNCHANGED <<uploader, remote, store, run, pending, i, total_images, imgs>>

\* ---------------------------------------------------------- walk_thread_up
\* (mutant) the loop without its visited-set guard
WalkGoesOnUnguarded == current_id /= None

\* The loop condition of line 201.
WalkGoesOn == current_id /= None /\ current_id \notin visited

\* (mutant) the failed hop kept in the chain
ChainAfterFailedFetchKept(ch, id) == Append(ch, id)

\* Lines 203-205: the break on a failed fetch comes before chain.append.
ChainAfterFailedFetch(ch, id) == ch

\* Lines 201-216, one iteration; ok: fetch_tweet returned the tweet. The
\* iteration leaves the loop by break when the fetch failed (line 205) or the
\* tweet has no parent (line 212).
walk_thread_up_step(ok) ==
  /\ pc = "walk" /\ WalkGoesOn
  /\ visited' = visited \cup {current_id}
  /\ fetched' = Append(fetched, current_id)
  /\ IF ~ok
     THEN /\ CanFail
          /\ hist' = [hist EXCEPT !.faults = @ + 1]
          /\ walk_failed' = TRUE
          /\ chain' = ChainAfterFailedFetch(chain, current_id)
          /\ UNCHANGED current_id
          /\ pc' = "walk_exit"
     ELSE /\ UNCHANGED <<walk_failed, hist>>
          /\ chain' = Append(chain, current_id)
          /\ IF parent[current_id] = None
             THEN current_id' = current_id /\ pc' = "walk_exit"
             ELSE current_id' = parent[current_id] /\ pc' = "walk"
  /\ UNCHANGED <<uploader, remote, store, run, pending, i, total_images, imgs,
                 conversation_id, tix, pix, images_downloaded>>

walk_thread_up_fetch == \E ok \in BOOLEAN : walk_thread_up_step(ok)

\* (mutant) the chain returned in the order it was collected
walk_thread_up_unreversed(ch) == ch

\* chain.reverse() of line 218
walk_thread_up_reverse(ch) == Reverse(ch)

\* Lines 218-219, reached by break or by the loop condition turning false:
\* the chain is reversed and returned to process_bookmark.
walk_thread_up_return ==
  /\ \/ pc = "walk" /\ ~WalkGoesOn
     \/ pc = "walk_exit"
  /\ chain' = walk_thread_up_reverse(chain)
  /\ visited' = {} /\ current_id' = None
  /\ pc' = "got_chain"
  /\ UNCHANGED <<uploader, remote, store, run, pending, i, total_images, imgs,
                 conversation_id, tix, pix, images_downloaded,
                 fetched, walk_failed, hist>>

\* -------------------------------------------------------- process_bookmark
\* (mutant) the empty chain returns without its ledger entry
process_bookmark_empty_unmarked == retrieval_log

\* Lines 272-275: an empty chain is marked and yields 0.
process_bookmark_empty_log == mark_retrieved(bm)

process_bookmark_empty ==
  /\ pc = "got_chain" /\ chain = << >>
  /\ retrieval_log' = process_bookmark_empty_log
  /\ imgs' = 0
  /\ total_images' = total_images + 0
  /\ pc' = "sleep"
  /\ Unwind
  /\ UNCHANGED <<uploader, remote, tweets, images, files, manifests, thread_index, run,
                 pending, i, fetched, walk_failed, hist>>

\* (mutant) the conversation id taken from the requested tweet
ConversationIdOfLeaf(ch) == ch[Len(ch)]

\* Line 277: the conversation id is the id of the chain's first tweet.
ConversationId(ch) == ch[1]

\* Lines 277-281.
process_bookmark_mkdir ==
  /\ pc = "got_chain" /\ chain /= << >>
  /\ conversation_id' = ConversationId(chain)
  /\ images_downloaded' = 0
  /\ tix' = 1 /\ pix' = 0
  /\ pc' = "tweet"
  /\ UNCHANGED <<uploader, remote, store, run, pending, i, total_images, imgs, chain,
                 visited, current_id, fetched, walk_failed, hist>>

\* Lines 283-284: the next tweet of the chain is upserted; after the last one
\* the manifest is written.
process_bookmark_tweet ==
  /\ pc = "tweet"
  /\ IF tix <= Len(chain)
     THEN /\ tweets' = save_tweet_from_api(chain[tix], conversation_id)
          /\ pix' = 1
          /\ pc' = "image"
     ELSE /\ pc' = "manifest"
          /\ UNCHANGED <<tweets, pix>>
  /\ UNCHANGED <<uploader, remote, images, retrieval_log, files, manifests, thread_index,
                 run, pending, i, total_images, imgs, chain, visited, current_id,
                 conversation_id, tix, images_downloaded, fetched, walk_failed,
                 hist>>

\* The tweet and the URL the image loop is at.
cur_tweet == chain[tix]
img_url == get_image_urls(cur_tweet)[pix]
dest == Dest(conversation_id, cur_tweet, img_url)
MoreImages == pix <= Len(get_image_urls(cur_tweet))

\* Line 286, the inner loop is exhausted: on to the next tweet.
process_bookmark_next_tweet ==
  /\ pc = "image" /\ ~MoreImages
  /\ tix' = tix + 1
  /\ pix' = 0
  /\ pc' = "tweet"
  /\ UNCHANGED <<uploader, remote, store, run, pending, i, total_images, imgs, chain,
                 visited, current_id, conversation_id, images_downloaded,
                 fetched, walk_failed, hist>>

\* (mutant) the skip decided by the images table instead of the file
SkipByRecord(d) == \E r \in images : r.local_path = d

\* Line 290: the existence check that guards the download.
SkipCheck(d) == Exists(d)

\* Lines 290-291: a destination that exists is skipped.
process_bookmark_skip ==
  /\ pc = "image" /\ MoreImages
  /\ SkipCheck(dest)
  /\ pix' = pix + 1
  /\ UNCHANGED <<uploader, remote, store, pc, run, pending, i, total_images, imgs, chain,
                 visited, current_id, conversation_id, tix, images_downloaded,
                 fetched, walk_failed, hist>>

\* download_image, lines 232-244. outcome "ok": the whole body was written;
\* "refused": the request failed before the file was opened; "broken": the
\* transfer failed after open(dest, "wb").
DownloadOutcomes == {"ok", "refused", "broken"}

\* (mutant) download_image reporting success whatever happened
download_image_returns_true(outcome) == TRUE

\* Lines 240 and 244: True after the whole body was written, False from the
\* handler.
download_image_returns(outcome) == outcome = "ok"

download_image(outcome) ==
  /\ pc = "image" /\ MoreImages
  /\ ~SkipCheck(dest)
  /\ outcome /= "ok" => CanFail
  /\ hist' = [hist EXCEPT !.downloaded = TRUE,
                          !.redownloaded = @ \/ Exists(dest),
                          !.faults = IF outcome = "ok" THEN @ ELSE @ + 1]
  /\ files' = CASE outcome = "ok" -> WriteFile(dest, "full")
                [] outcome = "broken" -> WriteFile(dest, "partial")
                [] OTHER -> files
  /\ IF download_image_returns(outcome)
     THEN pc' = "record" /\ pix' = pix
     ELSE pc' = "image" /\ pix' = pix + 1
  /\ UNCHANGED <<uploader, remote, tweets, images, retrieval_log, manifests, thread_index,
                 run, pending, i, total_images, imgs, chain, visited, current_id,
                 conversation_id, tix, images_downloaded, fetched, walk_failed>>

process_bookmark_download == \E outcome \in DownloadOutcomes : download_image(outcome)

\* Lines 294-296: the image row is written and counted.
process_bookmark_record ==
  /\ pc = "record"
  /\ images' = save_image_record(cur_tweet, img_url, dest)
  /\ images_downloaded' = images_downloaded + 1
  /\ pix' = pix + 1
  /\ pc' = "image"
  /\ UNCHANGED <<uploader, remote, tweets, retrieval_log, files, manifests, thread_index,
                 run, pending, i, total_images, imgs, chain, visited, current_id,
                 conversation_id, tix, fetched, walk_failed, hist>>

\* Lines 298-315: thread.json of the conversation directory is overwritten.
process_bookmark_manifest ==
  /\ pc = "manifest"
  /\ manifests' = WriteManifest(conversation_id,
                               Written(Manifest(conversation_id, chain)))
  /\ pc' = "mark"
  /\ UNCHANGED <<uploader, remote, tweets, images, retrieval_log, files, thread_index,
                 run, pending, i, total_images, imgs, locals, hist>>

\* Lines 317-318 and 372-373: the bookmark is marked, the count returned.
process_bookmark_mark ==
  /\ pc = "mark"
  /\ retrieval_log' = mark_retrieved(bm)
  /\ imgs' = images_downloaded
  /\ total_images' = total_images + images_downloaded
  /\ pc' = "sleep"
  /\ Unwind
  /\ UNCHANGED <<uploader, remote, tweets, images, files, manifests, thread_index, run,
                 pending, i, fetched, walk_failed, hist>>

\* ------------------------------------------------------ failures in the try
\* An Exception raised inside process_bookmark (lines 371-378): thread_dir.mkdir
\* fails, save_tweet_from_api fails on the payload, or thread.json cannot be
\* opened. Nothing of the failed statement is kept.
process_bookmark_raise ==
  /\ \/ pc = "got_chain" /\ chain /= << >>
     \/ pc = "tweet" /\ tix <= Len(chain)
     \/ pc = "manifest"
  /\ CanFail
  /\ hist' = [hist EXCEPT !.raised = @ \cup {bm}, !.faults = @ + 1]
  /\ pc' = "except"
  /\ Unwind
  /\ UNCHANGED <<uploader, remote, store, run, pending, i, total_images, imgs, fetched,
                 walk_failed>>

\* json.dump fails after open(..., "w") truncated thread.json.
process_bookmark_raise_in_dump ==
  /\ pc = "manifest"
  /\ CanFail
  /\ manifests' = WriteManifest(conversation_id, Truncated)
  /\ hist' = [hist EXCEPT !.raised = @ \cup {bm}, !.faults = @ + 1]
  /\ pc' = "except"
  /\ Unwind
  /\ UNCHANGED <<uploader, remote, tweets, images, retrieval_log, files, thread_index,
                 run, pending, i, total_images, imgs, fetched, walk_failed>>

\* (mutant) the handler only logs
main_except_unmarked == retrieval_log

\* Lines 377-379: the handler of the loop marks the bookmark all the same.
main_except_log == mark_retrieved(bm)

main_except ==
  /\ pc = "except"
  /\ retrieval_log' = main_except_log
  /\ pc' = "sleep"
  /\ UNCHANGED <<uploader, remote, tweets, images, files, manifests, thread_index, run,
                 pending, i, total_images, imgs, locals, hist>>

\* Line 381 and the loop's step to the next bookmark.
main_sleep ==
  /\ pc = "sleep"
  /\ i' = i + 1
  /\ pc' = "loop"
  /\ UNCHANGED <<uploader, remote, store, run, pending, total_images, imgs, locals, hist>>

\* Lines 361-363 and 383-389: the index is rewritten and main returns.
main_export ==
  /\ pc = "export"
  /\ thread_index' = Written(export_thread_index)
  /\ pc' = "done"
  /\ UNCHANGED <<uploader, remote, tweets, images, retrieval_log, files, manifests, run,
                 pending, i, total_images, imgs, locals, hist>>

\* ------------------------------------------------------- KeyboardInterrupt
\* Positions inside the try of lines 371-373.
TryPcs == {"walk", "walk_exit", "got_chain", "tweet", "image", "record",
           "manifest", "mark"}

\* (mutant) the handler goes on with the loop instead of leaving it
AfterInterruptContinue == "sleep"

\* Where line 374-376 takes main: out of the loop, on to line 383.
AfterInterrupt == "export"

Interrupted ==
  /\ CanFail
  /\ hist' = [hist EXCEPT !.interrupted = TRUE, !.faults = @ + 1]
  /\ Unwind
  /\ fetched' = << >> /\ walk_failed' = FALSE
  /\ UNCHANGED <<uploader, remote, run, pending, i, total_images, imgs>>

\* A KeyboardInterrupt inside process_bookmark is no Exception: it passes the
\* handlers of fetch_tweet and download_image and reaches line 374, which
\* leaves the loop. The statement it hits is abandoned.
interrupt_in_try ==
  /\ pc \in TryPcs
  /\ Interrupted
  /\ pc' = AfterInterrupt
  /\ UNCHANGED store

\* The same while download_image is writing: the opened file stays.
interrupt_in_download ==
  /\ pc = "image" /\ MoreImages
  /\ ~SkipCheck(dest)
  /\ files' = WriteFile(dest, "partial")
  /\ CanFail
  /\ hist' = [hist EXCEPT !.interrupted = TRUE, !.downloaded = TRUE,
                          !.redownloaded = @ \/ Exists(dest),
                          !.faults = @ + 1]
  /\ Unwind
  /\ fetched' = << >> /\ walk_failed' = FALSE
  /\ pc' = AfterInterrupt
  /\ UNCHANGED <<uploader, remote, tweets, images, retrieval_log, manifests, thread_index,
                 run, pending, i, total_images, imgs>>

\* The same while json.dump is writing thread.json.
interrupt_in_dump ==
  /\ pc = "manifest"
  /\ manifests' = WriteManifest(conversation_id, Truncated)
  /\ Interrupted
  /\ pc' = AfterInterrupt
  /\ UNCHANGED <<tweets, images, retrieval_log, files, thread_index>>

\* A KeyboardInterrupt outside the try (lines 353-370, 377-389) is caught by
\* nothing: main ends with a traceback.
interrupt_outside_try ==
  /\ pc \in {"start", "loop", "except", "sleep", "export"}
  /\ Interrupted
  /\ pc' = "crashed"
  /\ UNCHANGED store

\* The same while export_thread_index is writing thread_index.json.
interrupt_in_export ==
  /\ pc = "export"
  /\ thread_index' = Truncated
  /\ Interrupted
  /\ pc' = "crashed"
  /\ UNCHANGED <<tweets, images, retrieval_log, files, manifests>>

\* --------------------------------------------------------------- next run
\* The script is started again on the same database and files.
new_run ==
  /\ pc \in {"done", "crashed"}
  /\ run < MaxRuns
  /\ run' = run + 1
  /\ pc' = "start"
  /\ pending' = << >> /\ i' = 0 /\ total_images' = 0 /\ imgs' = 0
  /\ Unwind
  /\ fetched' = << >> /\ walk_failed' = FALSE
  /\ hist' = [HistInit EXCEPT !.log_at_start = retrieval_log,
                              !.prev_completed = (pc = "done" /\ ~hist.interrupted),
                              !.redownloaded = hist.redownloaded,
                              !.faults = hist.faults]
  /\ UNCHANGED <<uploader, remote, store>>

Next ==
  \/ main_start
  \/ main_loop
  \/ walk_thread_up_fetch
  \/ walk_thread_up_return
  \/ process_bookmark_empty
  \/ process_bookmark_mkdir
  \/ process_bookmark_tweet
  \/ process_bookmark_next_tweet
  \/ process_bookmark_skip
  \/ process_bookmark_download
  \/ process_bookmark_record
  \/ process_bookmark_manifest
  \/ process_bookmark_mark
  \/ process_bookmark_raise
  \/ process_bookmark_raise_in_dump
  \/ main_except
  \/ main_sleep
  \/ main_export
  \/ interrupt_in_try
  \/ interrupt_in_download
  \/ interrupt_in_dump
  \/ interrupt_outside_try
  \/ interrupt_in_export
  \/ new_run

Spec == Init /\ [][Next]_vars

\* ------------------------------------------------- the walker on its own
\* walk_thread_up(username, tweet_id) called on any parent-pointer graph over
\* WalkIds, for any tweet_id.
WalkInit ==
  /\ parent \in [WalkIds -> WalkIds \cup {None}]
  /\ photos = [t \in WalkIds |-> << >>]
  /\ bookmarks \in {{t} : t \in WalkIds}
  /\ tweets = [b \in bookmarks |-> [conversation_id |-> None, parent_tweet_id |-> None]]
  /\ images = {} /\ retrieval_log = {} /\ files = << >> /\ manifests = << >>
  /\ thread_index = Absent
  /\ pc = "walk" /\ run = 1
  /\ pending = SortedSeq(bookmarks) /\ i = 1 /\ total_images = 0 /\ imgs = 0
  /\ chain = << >> /\ visited = {} /\ current_id = pending[1]
  /\ conversation_id = None /\ tix = 0 /\ pix = 0 /\ images_downloaded = 0
  /\ fetched = << >> /\ walk_failed = FALSE
  /\ hist = [HistInit EXCEPT !.started = bookmarks]
  /\ UploaderIdle

WalkNext == walk_thread_up_fetch \/ walk_thread_up_return

WalkSpec == WalkInit /\ [][WalkNext]_vars

\* The walker is scheduled until it returns: it is straight-line code.
WalkFairSpec == WalkSpec /\ WF_vars(WalkNext)

\* ============================================================ the uploader
\* upload_to_retriever.py. A bookmark row is identified by its tweet_id; the
\* document built from it (build_document) is identified by the same id.

\* `if i % 50 == 0` of line 125
CheckpointEvery == 50

UploadSizes == (0..MaxSmallCorpus) \cup {CheckpointEvery + MaxPastCheckpoint}

\* fetch_bookmarks: the bookmarks that have their tweets and users rows, in
\* the order of the table.
fetch_bookmarks == SortedSeq({b \in bookmarks : b \in DOMAIN tweets})

\* load_uploaded_ids: set(json.loads(...)) of the tracking file, or set().
load_uploaded_ids ==
  IF tracking_file = Absent THEN {} ELSE Range(tracking_file.doc)

\* save_uploaded_ids: the tracking file holds json.dumps(sorted(ids)).
save_uploaded_ids(ids) == Written(SortedSeq(ids))

\* The bookmark of the current iteration (bookmark["tweet_id"]).
bookmark == to_upload[i]

\* upload_document returned: the service holds one more document of b.
upload_document(b) == [service EXCEPT ![b] = @ + 1]

\* What a POST can meet: a 2xx response, a 429 response (HTTPError), another
\* 4xx/5xx response (HTTPError), or an exception that is no HTTPError.
PostOutcomes == {"ok", "429", "http_error", "exception"}

\* The bookmarks at which a failure is injected (a POST that fails, a cut of
\* the run): the first of the corpus and those around the first checkpoint.
FaultPoints ==
  (1..MaxSmallCorpus) \cup ((CheckpointEvery - 1)..(CheckpointEvery + MaxPastCheckpoint))

CanFailUpload == uhist.faults < MaxFaults /\ bookmark \in FaultPoints

\* Lines 84-117. f: the --full flag. json.loads raises on a tracking file that
\* an abandoned write left, and main ends with a traceback.
upload_start ==
  /\ pc = "up_start"
  /\ \E f \in BOOLEAN :
       /\ full' = f
       /\ IF ~f /\ tracking_file = Truncated
          THEN /\ pc' = "up_killed"
               /\ UNCHANGED <<i, uploaded_ids, to_upload, success, errors, uhist>>
          ELSE LET ids == IF f THEN {} ELSE load_uploaded_ids
                   todo == IF f THEN fetch_bookmarks
                           ELSE SelectSeq(fetch_bookmarks, LAMBDA b : b \notin ids)
               IN /\ uploaded_ids' = ids
                  /\ to_upload' = todo
                  /\ uhist' = [uhist EXCEPT !.loaded = ids, !.any_full = @ \/ f]
                  /\ success' = 0 /\ errors' = 0
                  /\ IF todo = << >>
                     THEN pc' = "up_done" /\ i' = 0
                     ELSE pc' = "up_post" /\ i' = 1
  /\ UNCHANGED <<retriever, bookmarks, run, service, tracking_file>>

\* (mutant) the retry taken after any HTTP error
RetryOnAnyHttpError(outcome) == outcome \in {"429", "http_error"}

\* Lines 128-129: the retry is for an HTTPError whose status is 429.
RetryOn(outcome) == outcome = "429"

\* Lines 120-128 and 139-144: the first POST of the iteration.
upload_first_post(outcome) ==
  /\ pc = "up_post"
  /\ outcome /= "ok" => CanFailUpload
  /\ uhist' = [uhist EXCEPT !.posts = 1, !.first = outcome, !.last = outcome,
                            !.faults = IF outcome = "ok" THEN @ ELSE @ + 1]
  /\ IF outcome = "ok"
     THEN /\ service' = upload_document(bookmark)
          /\ uploaded_ids' = uploaded_ids \cup {bookmark}
          /\ success' = success + 1
          /\ pc' = IF i % CheckpointEvery = 0 THEN "up_checkpoint" ELSE "up_sleep"
          /\ UNCHANGED errors
     ELSE /\ IF RetryOn(outcome)
             THEN pc' = "up_backoff" /\ UNCHANGED errors
             ELSE pc' = "up_sleep" /\ errors' = errors + 1
          /\ UNCHANGED <<service, uploaded_ids, success>>
  /\ UNCHANGED <<retriever, bookmarks, run, i, tracking_file, full, to_upload>>

upload_post == \E outcome \in PostOutcomes : upload_first_post(outcome)

\* Lines 126-127: the checkpoint.
upload_checkpoint ==
  /\ pc = "up_checkpoint"
  /\ tracking_file' = save_uploaded_ids(uploaded_ids)
  /\ pc' = "up_sleep"
  /\ UNCHANGED <<retriever, bookmarks, run, i, service, full, uploaded_ids,
                 to_upload, success, errors, uhist>>

\* Lines 130-131: time.sleep(5).
upload_backoff ==
  /\ pc = "up_backoff"
  /\ uhist' = [uhist EXCEPT !.waited = TRUE]
  /\ pc' = "up_retry"
  /\ UNCHANGED <<retriever, bookmarks, run, i, service, tracking_file, full,
                 uploaded_ids, to_upload, success, errors>>

\* Lines 132-138: the second POST; whatever it raises is an error.
upload_second_post(outcome) ==
  /\ pc = "up_retry"
  /\ uhist' = [uhist EXCEPT !.posts = @ + 1, !.last = outcome]
  /\ IF outcome = "ok"
     THEN /\ service' = upload_document(bookmark)
          /\ uploaded_ids' = uploaded_ids \cup {bookmark}
          /\ success' = success + 1
          /\ UNCHANGED errors
     ELSE /\ errors' = errors + 1
          /\ UNCHANGED <<service, uploaded_ids, success>>
  /\ pc' = "up_sleep"
  /\ UNCHANGED <<retriever, bookmarks, run, i, tracking_file, full, to_upload>>

upload_retry == \E outcome \in PostOutcomes : upload_second_post(outcome)

\* Line 146 and the loop's step to the next bookmark, or out of the loop.
upload_sleep ==
  /\ pc = "up_sleep"
  /\ IF i < Len(to_upload)
     THEN /\ i' = i + 1
          /\ pc' = "up_post"
          /\ uhist' = [uhist EXCEPT !.posts = 0, !.first = "", !.last = "",
                                    !.waited = FALSE]
     ELSE /\ pc' = "up_save"
          /\ UNCHANGED <<i, uhist>>
  /\ UNCHANGED <<retriever, bookmarks, run, service, tracking_file, full,
                 uploaded_ids, to_upload, success, errors>>

\* Lines 148-149: the final save.
upload_save ==
  /\ pc = "up_save"
  /\ tracking_file' = save_uploaded_ids(uploaded_ids)
  /\ pc' = "up_done"
  /\ UNCHANGED <<retriever, bookmarks, run, i, service, full, uploaded_ids,
                 to_upload, success, errors, uhist>>

\* Positions of the upload loop and of the final save.
UploadLoopPcs == {"up_post", "up_backoff", "up_retry", "up_checkpoint",
                  "up_sleep", "up_save"}

\* The run is cut short: a KeyboardInterrupt (no Exception, so lines 136 and
\* 142 let it pass) or the process is killed. Nothing of main is executed
\* after it; a write_text it hits may leave the tracking file truncated.
upload_cut ==
  /\ pc \in UploadLoopPcs
  /\ CanFailUpload
  /\ uhist' = [uhist EXCEPT !.faults = @ + 1]
  /\ \/ UNCHANGED tracking_file
     \/ pc \in {"up_checkpoint", "up_save"} /\ tracking_file' = Truncated
  /\ pc' = "up_killed"
  /\ UNCHANGED <<retriever, bookmarks, run, i, service, full, uploaded_ids,
                 to_upload, success, errors>>

\* The script is started again on the same database and tracking file.
upload_new_run ==
  /\ pc \in {"up_done", "up_killed"}
  /\ run < MaxRuns
  /\ run' = run + 1
  /\ pc' = "up_start"
  /\ i' = 0 /\ full' = FALSE /\ uploaded_ids' = {} /\ to_upload' = << >>
  /\ success' = 0 /\ errors' = 0
  /\ uhist' = [UploadHistInit EXCEPT !.faults = uhist.faults,
                                     !.any_full = uhist.any_full]
  /\ UNCHANGED <<retriever, bookmarks, service, tracking_file>>

\* The database holds the corpus (every bookmark with its tweets row); the
\* uploader has never run: no tracking file, nothing in the service.
UploadInit ==
  /\ bookmarks \in {1..n : n \in UploadSizes}
  /\ parent = [b \in bookmarks |-> None]
  /\ photos = [b \in bookmarks |-> << >>]
  /\ tweets = [b \in bookmarks |-> [conversation_id |-> None, parent_tweet_id |-> None]]
  /\ images = {} /\ retrieval_log = {} /\ files = << >> /\ manifests = << >>
  /\ thread_index = Absent
  /\ pc = "up_start" /\ run = 1
  /\ pending = << >> /\ i = 0 /\ total_images = 0 /\ imgs = 0
  /\ LocalsInit
  /\ hist = HistInit
  /\ UploaderIdle

UploadNext ==
  \/ upload_start
  \/ upload_post
  \/ upload_checkpoint
  \/ upload_backoff
  \/ upload_retry
  \/ upload_sleep
  \/ upload_save
  \/ upload_cut
  \/ upload_new_run

UploadSpec == UploadInit /\ [][UploadNext]_vars

\* ====================================================== destination paths
\* The destination paths of process_bookmark as strings (sequences of
\* characters). A tweet id is a string of decimal digits; a file name is what
\* image_filename_from_url returns, a string without "/" that may hold digits
\* and "_".
StringsOver(chars, n) == UNION {[1..k -> chars] : k \in 1..n}
IdStrings == StringsOver({"1", "2"}, MaxIdLen)
NameStrings == StringsOver({"1", "_"}, MaxNameLen)

\* (mutant) the file name without its separator
DestNameUnseparated(id, fname) == id \o fname

\* Line 288: f"{tweet['id']}_{fname}"
DestName(id, fname) == id \o <<"_">> \o fname

\* Lines 278 and 288: dest = THREADS_DIR / conversation_id / file name
DestPath(conv, id, fname) == conv \o <<"/">> \o DestName(id, fname)

\* Lines 283-296 for a chain of two tweets with one photo each, in an empty
\* thread directory; every download succeeds. photos[k] is the file name
\* of the photo URL of chain[k].
path_image ==
  /\ pc = "path" /\ tix <= Len(chain)
  /\ LET d == DestPath(conversation_id, chain[tix], photos[tix])
     IN IF Exists(d)
        THEN UNCHANGED <<files, images_downloaded>>
        ELSE /\ files' = WriteFile(d, "full")
             /\ images_downloaded' = images_downloaded + 1
  /\ tix' = tix + 1
  /\ pc' = IF tix = Len(chain) THEN "path_done" ELSE "path"
  /\ UNCHANGED <<uploader, remote, tweets, images, retrieval_log, manifests,
                 thread_index, run, pending, i, total_images, imgs, chain,
                 visited, current_id, conversation_id, pix, fetched,
                 walk_failed, hist>>

\* Two tweets with different ids in one conversation, each with a photo.
PathInit ==
  /\ chain \in {c \in IdStrings \X IdStrings : c[1] /= c[2]}
  /\ photos \in NameStrings \X NameStrings
  /\ conversation_id = chain[1]
  /\ parent = << >> /\ bookmarks = {} /\ tweets = << >>
  /\ images = {} /\ retrieval_log = {} /\ files = << >> /\ manifests = << >>
  /\ thread_index = Absent
  /\ pc = "path" /\ run = 1
  /\ pending = << >> /\ i = 0 /\ total_images = 0 /\ imgs = 0
  /\ visited = {} /\ current_id = None
  /\ tix = 1 /\ pix = 0 /\ images_downloaded = 0
  /\ fetched = << >> /\ walk_failed = FALSE
  /\ hist = HistInit
  /\ UploaderIdle

PathNext == path_image

PathSpec == PathInit /\ [][PathNext]_vars

\* ================================================================== claims
\* The reply chain of tweet t as the remote source has it, newest first: t,
\* its parent, ... up to a tweet without parent or to the first repetition.
RECURSIVE Path(_, _)
Path(t, seen) ==
  IF t = None \/ t \in seen THEN << >>
  ELSE <<t>> \o Path(parent[t], seen \cup {t})

ReplyChain(t) == Path(t, {})
Last(s) == s[Len(s)]
\* The chain of t ends at a root: it does not run into a cycle.
Acyclic(t) == parent[Last(ReplyChain(t))] = None
Root(t) == Last(ReplyChain(t))
NoDup(s) == \A j, k \in DOMAIN s : j /= k => s[j] /= s[k]

\* C1: for an acyclic reply chain of length N ending at the requested tweet,
\* when every fetch succeeds, walk_thread_up returns exactly N records, root
\* first, each the parent of the next, the last one the requested tweet.
C1_WalkReturnsWholeChainRootFirst ==
  (pc = "got_chain" /\ ~walk_failed /\ Acyclic(bm)) =>
      /\ Len(chain) = Len(ReplyChain(bm))
      /\ \A k \in 1..Len(chain) : chain[k] = ReplyChain(bm)[Len(chain) + 1 - k]
      /\ chain[Len(chain)] = bm
      /\ parent[chain[1]] = None
      /\ \A k \in 1..(Len(chain) - 1) : parent[chain[k + 1]] = chain[k]

C1_Witness ==
  pc = "got_chain" /\ ~walk_failed /\ Acyclic(bm) /\ Len(chain) >= 3

\* C2: on every parent-pointer graph, cycles included, the walk fetches no
\* identifier twice (so it ends after at most as many fetches as there are
\* tweets), and a walk without failed fetch ends at a tweet without parent or
\* at the first tweet whose parent has been visited.
C2_WalkFetchesNoIdTwice ==
  /\ NoDup(fetched)
  /\ Len(fetched) <= Cardinality(DOMAIN parent)
  /\ (pc = "walk" /\ WalkGoesOn) => current_id \notin Range(fetched)
  /\ (pc = "got_chain" /\ ~walk_failed) =>
        /\ fetched = ReplyChain(bm)
        /\ parent[Last(fetched)] \in Range(fetched) \cup {None}

C2_Witness ==
  /\ pc = "got_chain" /\ ~walk_failed
  /\ Len(fetched) >= 2
  /\ parent[Last(fetched)] \in Range(fetched)

\* C2, as a liveness property of the walker run on its own: every walk returns.
C2_WalkTerminates == <>(pc = "got_chain")

\* The walk of the current bookmark failed on its very first fetch.
FirstHopFailed == walk_failed /\ Len(fetched) = 1

\* C3: when the very first fetch of a bookmark's walk fails, walk_thread_up
\* returns the empty chain, and process_bookmark returns 0 with the bookmark's
\* id in retrieval_log.
C3_FirstHopFailureMarksLedger ==
  /\ (pc = "got_chain" /\ FirstHopFailed) => chain = << >>
  /\ (pc = "sleep" /\ FirstHopFailed) => imgs = 0 /\ bm \in retrieval_log

C3_Witness == pc = "sleep" /\ FirstHopFailed /\ total_images > 0

\* C4: a run of main that follows a run which exhausted its loop, and that is
\* not interrupted itself, starts no bookmark, sends no image request, counts
\* no image and ends with the retrieval_log it found.
C4_SecondRunDoesNothing ==
  (run >= 2 /\ hist.prev_completed /\ pc = "done" /\ ~hist.interrupted) =>
      /\ hist.started = {}
      /\ ~hist.downloaded
      /\ total_images = 0
      /\ retrieval_log = hist.log_at_start

C4_Witness ==
  /\ run >= 2 /\ hist.prev_completed /\ pc = "done" /\ ~hist.interrupted
  /\ images /= {}
  /\ Cardinality(retrieval_log) >= 2

\* C5: process_bookmark never runs for a bookmark that retrieval_log holds:
\* not later in the run that marked it, nor in a later run.
C5_MarkedBookmarkNeverReattempted ==
  pc \in TryPcs => bm \notin retrieval_log

C5_Witness ==
  /\ run >= 2 /\ pc = "walk"
  /\ hist.log_at_start /= {}
  /\ Len(pending) < Cardinality(bookmarks)

\* C6: an attempt that ends without KeyboardInterrupt (by return or through
\* the handler of line 377) leaves the bookmark in retrieval_log, and a run
\* without interruption attempts every pending bookmark, whatever failed.
C6_EveryAttemptEndsMarked ==
  /\ pc = "sleep" => bm \in retrieval_log
  /\ (pc \in {"export", "done"} /\ ~hist.interrupted) =>
        /\ hist.started = Range(pending)
        /\ Range(pending) \subseteq retrieval_log

C6_Witness ==
  /\ pc = "done" /\ ~hist.interrupted
  /\ Len(pending) >= 2
  /\ pending[1] \in hist.raised

\* No bookmark is being processed, and every processing of the run so far ran
\* to its return: the stored rows are those that finished processings left.
BetweenBookmarks ==
  /\ pc \in {"sleep", "loop", "done"}
  /\ run = 1 /\ hist.raised = {} /\ ~hist.interrupted

\* C7: between the processings of a run, every stored tweet that has a conversation id and
\* whose reply chain has a root carries the id of that root, so all stored
\* tweets of one reply chain carry the same id.
C7_OneConversationIdPerChain ==
  BetweenBookmarks =>
    \A t \in DOMAIN tweets :
      (tweets[t].conversation_id /= None /\ Acyclic(t)) =>
          tweets[t].conversation_id = Root(t)

\* The first bookmark of the first run has been processed on the empty store,
\* with no failed fetch, no failed download, no exception and no interruption.
FirstBookmarkDoneCleanly ==
  run = 1 /\ i = 1 /\ pc = "sleep" /\ hist.faults = 0

\* The chain of the bookmark, root first, as the remote source has it, and
\* its (tweet, photo URL) pairs.
ExpectedChain == Reverse(ReplyChain(bm))
ExpectedRoot == Root(bm)
TweetUrls ==
  {<<t, u>> : t \in Range(ExpectedChain), u \in UNION {Range(photos[x]) : x \in DOMAIN photos}}
    \cap {<<t, u>> \in (DOMAIN photos) \X UNION {Range(photos[x]) : x \in DOMAIN photos} :
             u \in Range(photos[t])}
ImageRow(t, u) ==
  [tweet_id |-> t, url |-> u, local_path |-> Dest(ExpectedRoot, t, u)]
\* The first photo URL of tweet t that derives the filename u derives.
FirstUrlFor(t, u) ==
  LET urls == photos[t]
      k == Min({j \in DOMAIN urls :
                  image_filename_from_url(urls[j]) = image_filename_from_url(u)})
  IN urls[k]

\* What C8 says of the manifest, the files, the count and the ledger.
C8_ManifestFilesLedger ==
  /\ DOMAIN manifests = {ExpectedRoot}
  /\ manifests[ExpectedRoot].state = "written"
  /\ LET doc == manifests[ExpectedRoot].doc
     IN /\ doc.conversation_id = ExpectedRoot
        /\ doc.tweet_count = Len(ExpectedChain)
        /\ [k \in DOMAIN doc.tweets |-> doc.tweets[k].id] = ExpectedChain
        /\ \A k \in DOMAIN doc.tweets :
              doc.tweets[k].images = photos[ExpectedChain[k]]
  /\ DOMAIN files = {Dest(ExpectedRoot, p[1], p[2]) : p \in TweetUrls}
  /\ \A d \in DOMAIN files : files[d] = "full"
  /\ imgs = Cardinality(images)
  /\ retrieval_log = {bm}

\* C8, as claimed: after the first bookmark was processed cleanly on the empty
\* store, the manifest of the root's directory lists the chain root first,
\* there is one file and one image row per (tweet, photo URL) of the chain,
\* the returned count is the number of rows and the ledger holds the bookmark.
C8_Original ==
  FirstBookmarkDoneCleanly =>
    /\ C8_ManifestFilesLedger
    /\ images = {ImageRow(p[1], p[2]) : p \in TweetUrls}

\* C8, amended: one file and one image row per (tweet, derived filename) of
\* the chain, the row being that of the tweet's first URL with that filename.
C8_OneRowPerDestination ==
  FirstBookmarkDoneCleanly =>
    /\ C8_ManifestFilesLedger
    /\ images = {ImageRow(p[1], FirstUrlFor(p[1], p[2])) : p \in TweetUrls}
    /\ Cardinality(images) = Cardinality(DOMAIN files)

C8_Witness ==
  /\ FirstBookmarkDoneCleanly
  /\ Len(ExpectedChain) >= 2
  /\ Cardinality(images) < Cardinality(TweetUrls)

\* C9: the images table never holds two rows with the same (tweet_id, url),
\* and download_image never sends a request for a destination whose file
\* exists, whether or not the images table has a row for it.
C9_NoDuplicateRowNoRepeatedDownload ==
  /\ \A r1, r2 \in images :
        (r1.tweet_id = r2.tweet_id /\ r1.url = r2.url) => r1 = r2
  /\ ~hist.redownloaded

\* A later run passes a file whose row was never written, without a request.
C9_Witness ==
  /\ run >= 2 /\ pc = "image" /\ pix >= 2 /\ ~hist.downloaded
  /\ LET d == Dest(conversation_id, cur_tweet, get_image_urls(cur_tweet)[1])
     IN /\ d \in DOMAIN files
        /\ files[d] = "full"
        /\ ~\E r \in images : r.local_path = d

LeavesLoopOutsideTry ==
  /\ pc \in {"except", "sleep"}
  /\ pc' \in {"done", "crashed"}

\* C11: a run of main that leaves its loop, by exhausting it or by a user
\* interruption at any point of it, ends with thread_index.json rewritten
\* from the tweets table as it then is: the stored tweets that have a
\* conversation id, grouped by it.
C11_IndexRegeneratedWhenLoopIsLeft ==
  [][LeavesLoopOutsideTry => thread_index' = Written(export_thread_index)']_vars

\* What holds of C11: a run that reaches the end of main has just rewritten
\* the index from the tweets table.
C11_IndexFreshAtReturn == pc = "done" => thread_index = Written(export_thread_index)

\* The ids the tracking file holds (none when it is absent or truncated).
FileIds ==
  IF tracking_file.state = "written" THEN Range(tracking_file.doc) ELSE {}

\* The ids whose POST succeeded in the current run of the uploader.
SentThisRun == uploaded_ids \ uhist.loaded

\* C12: as long as no run is started with --full, the service never gets a
\* second document of a bookmark: a run sends no POST for a bookmark that an
\* earlier run uploaded, also when the earlier run was cut short.
C12_NoDocumentSentTwice ==
  ~uhist.any_full => \A b \in DOMAIN service : service[b] <= 1

\* What holds of C12: an id is in uploaded_ids only when the run loaded it or
\* a POST for it succeeded, and a run that is not --full sends no POST for an
\* id it loaded from the tracking file.
C12_IdsEnterAfterSuccess ==
  /\ \A b \in SentThisRun : service[b] >= 1
  /\ (pc \in UploadLoopPcs /\ ~full) => Range(to_upload) \cap uhist.loaded = {}

\* C13: an iteration sends at most two POSTs; the second one only after a 429
\* on the first and the backoff; an iteration whose last POST failed has made
\* no further attempt, is counted in errors and its id is not in uploaded_ids.
C13_AtMostOneRetryOn429 ==
  /\ uhist.posts <= 2
  /\ uhist.posts = 2 => (uhist.first = "429" /\ uhist.waited)
  /\ pc = "up_retry" => (uhist.posts = 1 /\ uhist.first = "429" /\ uhist.waited)
  /\ pc = "up_sleep" =>
        /\ uhist.posts >= 1
        /\ uhist.first \notin {"ok", "429"} => uhist.posts = 1
        /\ uhist.first = "429" => uhist.posts = 2
        /\ (uhist.last = "ok") <=> (bookmark \in uploaded_ids)
        /\ success = Cardinality(SentThisRun)
        /\ success + errors = i

C13_Witness ==
  /\ pc = "up_sleep" /\ uhist.posts = 2 /\ uhist.last = "http_error"
  /\ errors = 1 /\ success >= 1 /\ bookmark \notin uploaded_ids

\* C14: after every 50th bookmark of a run the tracking file holds every id
\* uploaded so far.
C14_CheckpointAfterEvery50th ==
  (pc = "up_sleep" /\ i % CheckpointEvery = 0) => uploaded_ids \subseteq FileIds

\* What holds of C14: a run that reaches the end of main leaves the tracking
\* file with the ids it started from together with those it uploaded.
C14_FileAtReturn ==
  pc = "up_done" => FileIds = uhist.loaded \cup SentThisRun

\* C15: two tweets of one conversation with different ids get different
\* destination paths, whatever their photo URLs (the same one included), so
\* both photos are downloaded: none is skipped for the other's file.
C15_DistinctIdsDistinctPaths ==
  /\ DestPath(conversation_id, chain[1], photos[1])
       /= DestPath(conversation_id, chain[2], photos[2])
  /\ pc = "path_done" => (images_downloaded = 2 /\ Cardinality(DOMAIN files) = 2)

\* Both tweets carry the same URL, and one id begins with the other.
C15_Witness ==
  /\ pc = "path_done"
  /\ photos[1] = photos[2]
  /\ Len(chain[1]) < Len(chain[2])
  /\ SubSeq(chain[2], 1, Len(chain[1])) = chain[1]

\* C16: when the fetch at hop k+1 fails, the walk fetches nothing more and
\* returns the k tweets fetched before it, oldest first: each the parent of
\* the next, the last one the requested tweet, the first one the reply to the
\* tweet whose fetch failed.
C16_FailedHopReturnsFetchedSoFar ==
  /\ walk_failed => pc /= "walk"
  /\ (pc = "got_chain" /\ walk_failed) =>
        LET k == Len(fetched) - 1
        IN /\ fetched = SubSeq(ReplyChain(bm), 1, k + 1)
           /\ Len(chain) = k
           /\ \A j \in 1..k : chain[j] = fetched[k + 1 - j]
           /\ \A j \in 1..(k - 1) : parent[chain[j + 1]] = chain[j]
           /\ k >= 1 => (chain[k] = bm /\ parent[chain[1]] = fetched[k + 1])

C16_Witness ==
  /\ pc = "got_chain" /\ walk_failed
  /\ Len(chain) >= 2
  /\ parent[Last(fetched)] /= None

\* The chain the walk of the current bookmark returned, newest first: the
\* ids it requested, without the one whose fetch failed.
ReturnedChain ==
  IF walk_failed THEN SubSeq(fetched, 1, Len(fetched) - 1) ELSE fetched

\* The tweets of the returned chain are stored under the chain's first id and
\* the manifest of that conversation is the manifest of the chain.
ChainPersisted ==
  LET conv == Last(ReturnedChain)
  IN /\ \A t \in Range(ReturnedChain) :
          t \in DOMAIN tweets /\ tweets[t].conversation_id = conv
     /\ conv \in DOMAIN manifests
     /\ manifests[conv] = Written(Manifest(conv, Reverse(ReturnedChain)))

\* C17, as claimed: a bookmark that has just got its ledger entry and whose
\* walk returned a non-empty chain has had every tweet of the chain upserted
\* and the manifest written.
C17_Original ==
  (pc = "sleep" /\ ReturnedChain /= << >>) => ChainPersisted

\* C17, amended: the same for a bookmark whose processing raised no
\* exception; one whose processing raised gets its ledger entry from the
\* handler of the loop, whatever had been persisted by then.
C17_MarkedAfterPersistedUnlessRaised ==
  /\ (pc = "sleep" /\ ReturnedChain /= << >> /\ bm \notin hist.raised)
        => ChainPersisted
  /\ pc = "sleep" => bm \in retrieval_log

C17_Witness ==
  /\ pc = "sleep" /\ bm \notin hist.raised
  /\ Len(ReturnedChain) >= 2
  /\ bm \in retrieval_log

\* The manifest of the returned chain's conversation is the manifest of that
\* chain alone.
ManifestIsOfReturnedChain ==
  LET conv == Last(ReturnedChain)
  IN /\ conv \in DOMAIN manifests
     /\ manifests[conv] = Written(Manifest(conv, Reverse(ReturnedChain)))

\* C18, as claimed: after a processing whose walk returned a non-empty chain,
\* the manifest of the chain's conversation directory is the manifest of that
\* chain.
C18_Original ==
  (pc = "sleep" /\ ReturnedChain /= << >>) => ManifestIsOfReturnedChain

\* A step that changes a manifest is the manifest write of process_bookmark:
\* it touches the directory of the chain's first id only, and leaves there
\* the manifest of the chain alone, or a truncated file when it is abandoned.
ManifestWriteStep ==
  manifests' /= manifests =>
    /\ pc = "manifest" /\ conversation_id = chain[1]
    /\ DOMAIN manifests' = (DOMAIN manifests) \cup {conversation_id}
    /\ \A c \in DOMAIN manifests : c /= conversation_id => manifests'[c] = manifests[c]
    /\ manifests'[conversation_id]
         \in {Written(Manifest(conversation_id, chain)), Truncated}

\* A processing that got an empty chain returns with the manifests, the tweet
\* rows, the image rows and the image files as they were.
EmptyChainStep ==
  (pc = "got_chain" /\ chain = << >> /\ pc' /= pc) =>
    UNCHANGED <<manifests, tweets, images, files>>

\* C18, amended: the manifest of a conversation directory is written only by
\* a processing that reaches its manifest write, which replaces it by the
\* manifest of its own chain; after a processing that returned with a
\* non-empty chain the manifest is that chain's; an empty chain changes no
\* manifest, no row and no file.
C18_ManifestReplacedByEachCompletedProcessing ==
  /\ [][ManifestWriteStep /\ EmptyChainStep]_vars
  /\ [](( /\ pc = "sleep" /\ ReturnedChain /= << >>
          /\ bm \notin hist.raised) => ManifestIsOfReturnedChain)

\* The second bookmark of a clean run has replaced the manifest that the
\* first one wrote for the same conversation.
C18_Witness ==
  /\ pc = "sleep" /\ i = 2 /\ hist.faults = 0
  /\ Len(ReturnedChain) = 2
  /\ pending[1] = Last(ReturnedChain)
  /\ manifests[Last(ReturnedChain)].doc.tweet_count = 2

\* A step that writes an image row counts it, and the row's path is the
\* destination that download_image has just written in full; a step that
\* counts an image writes a row.
ImageRowStep ==
  /\ images' /= images <=> images_downloaded' = images_downloaded + 1
  /\ images' /= images =>
        /\ pc = "record"
        /\ Exists(dest) /\ files[dest] = "full"
        /\ images' \ images = {[tweet_id |-> cur_tweet, url |-> img_url,
                                local_path |-> dest]}

\* process_bookmark returns the count of its image rows.
ImageCountStep ==
  (pc = "mark" /\ pc' = "sleep") => imgs' = images_downloaded

\* C19: every row of the images table names a file that exists and was
\* written in full; a row is written only after download_image returned True
\* for its destination, and process_bookmark returns the number of rows it
\* wrote.
C19_ImageRowsHaveFiles ==
  /\ [](\A r \in images :
          r.local_path \in DOMAIN files /\ files[r.local_path] = "full")
  /\ [][ImageRowStep /\ ImageCountStep]_vars

\* A row and its file beside a file that a broken download left without row.
C19_Witness ==
  /\ pc = "sleep" /\ imgs = 1
  /\ images /= {}
  /\ \E d \in DOMAIN files :
        files[d] = "partial" /\ ~\E r \in images : r.local_path = d

\* C20: a destination that the skip check of line 290 finds present, at the
\* first photo of a tweet, holds a completely downloaded image.
C20_SkippedFilesAreComplete ==
  (pc = "image" /\ MoreImages /\ pix = 1 /\ SkipCheck(dest)) => files[dest] = "full"

====
